---- MODULE Spec2Model ----
(***************************************************************************)
(* BfStreamTrader (src/bfbot/trader.py): the stream trader of bfbot.  One  *)
(* execution event (message) is processed at a time: volume aggregation,   *)
(* EWMA update, warm-up countdown, snapshot fetch, reconciliation of the   *)
(* reserved position, order side and size, skip rules, order submission    *)
(* and the bookkeeping that follows the gateway's answer.                  *)
(*                                                                         *)
(* Number representation.                                                  *)
(*   - order and position sizes are integers counting 1/Milli of 0.001;    *)
(*   - the EWMA mean and variance are fixed-point numbers with FracScale   *)
(*     units per 1, every update rounded to the nearest unit (ties to      *)
(*     even), standing for the floats of the code;                         *)
(*   - trade['ewm_alpha'] is held as its numerator over AlphaDen;          *)
(*   - a price is held as the exponent k of PriceStep^k (105/100), so the  *)
(*     log return between two prices is the difference of the exponents,   *)
(*     in units of log(PriceStep).                                         *)
(***************************************************************************)
EXTENDS Integers, Sequences, FiniteSets, TLC

\* Python's None in a field that holds a side
None == "None"

\* Python's None in a field that holds a number
Null == -1

\* Python's None in the last_open field (a record when set: << r >>)
NoTrade == << >>

Sides == {"BUY", "SELL"}

Abs(x) == IF x < 0 THEN -x ELSE x

Min(a, b) == IF a <= b THEN a ELSE b

Max(a, b) == IF a >= b THEN a ELSE b

\* Nearest integer to n/d (d > 0), ties to the even one: Python's round().
RoundDiv(n, d) ==
    LET q == n \div d
        r == n % d
    IN  IF 2 * r < d THEN q
        ELSE IF 2 * r > d THEN q + 1
        ELSE IF q % 2 = 0 THEN q ELSE q + 1

(***************************************************************************)
(* Bounds and constants.                                                   *)
(***************************************************************************)
\* size units per 0.001
Milli == 2

\* fixed-point units per 1 of the EWMA floats
FracScale == 4

\* denominator of trade['ewm_alpha']
AlphaDen == 2

\* self.n_load at construction
NLoad == 100

\* the status of an oversized-order rejection
SizeOverStatus == -205

\* the clock stops counting at MaxNow ticks past the recorded order
MaxNow == 2

\* cap on the oversize-rejection counter
MaxSizeOver == 2

(***************************************************************************)
(* Pure helpers of the handler.                                            *)
(***************************************************************************)
RECURSIVE Pow(_, _)
Pow(b, n) == IF n = 0 THEN 1 ELSE b * Pow(b, n - 1)

Sign(x) == IF x > 0 THEN 1 ELSE IF x < 0 THEN -1 ELSE 0

Opposite(side) == IF side = "BUY" THEN "SELL" ELSE "BUY"

\* sum([r['size'] for r in records if r['side'] == side])
RECURSIVE SumSide(_, _)
SumSide(records, side) ==
    IF records = << >> THEN 0
    ELSE (IF Head(records).side = side THEN Head(records).size ELSE 0)
         + SumSide(Tail(records), side)

\* message(), lines 43-47: the batch with a zero row for each side appended,
\* grouped by side and summed.  An empty batch has no 'side'/'size' columns:
\* selecting them raises KeyError before anything is assigned.
VolumesRaises(batch) == batch = << >>

Volumes(batch) ==
    LET seeded == batch \o << [side |-> "BUY", size |-> 0],
                               [side |-> "SELL", size |-> 0] >>
    IN  [BUY |-> SumSide(seeded, "BUY"), SELL |-> SumSide(seeded, "SELL")]

\* EwmUpdate with the weights of the sample and of the previous mean exchanged
EwmUpdateSwapped(prev, x, a) ==
    LET dev  == x * FracScale - prev.mean
        vnum == (AlphaDen - a) * (prev.var * AlphaDen * FracScale + a * dev * dev)
        v    == RoundDiv(vnum, AlphaDen * AlphaDen * FracScale)
    IN  [mean |-> RoundDiv((AlphaDen - a) * x * FracScale + a * prev.mean, AlphaDen),
         var  |-> IF vnum > 0 THEN Max(1, v) ELSE 0]

\* The EWMA recurrence of lines 131-142 and 152-163 on a sample x (an integer)
\* and the previous state prev, alpha = a / AlphaDen:
\*   mean' = alpha*x + (1-alpha)*mean
\*   var'  = (1-alpha) * (var + alpha * (x-mean)^2)
\* A variance that is positive stays positive under rounding.
EwmUpdate(prev, x, a) ==
    LET dev  == x * FracScale - prev.mean
        vnum == (AlphaDen - a) * (prev.var * AlphaDen * FracScale + a * dev * dev)
        v    == RoundDiv(vnum, AlphaDen * AlphaDen * FracScale)
    IN  [mean |-> RoundDiv(a * x * FracScale + (AlphaDen - a) * prev.mean, AlphaDen),
         var  |-> IF vnum > 0 THEN Max(1, v) ELSE 0]

\* _compute_ewm_volume_delta, on the volumes just aggregated
ComputeEwmVolumeDelta(vols, prev, tr) ==
    EwmUpdate(prev, vols.BUY - vols.SELL, tr.ewm_alpha)

\* _compute_ewm_log_return_rate: log(price / last_open.price), 0 without last_open
ComputeEwmLogReturnRate(st, lo, prev, tr) ==
    EwmUpdate(prev, IF lo # NoTrade THEN st.price - lo[1].price ELSE 0,
              tr.ewm_alpha)

\* The signs np.random.normal(loc=mean, scale=sqrt(var)) can return: the sign of
\* the mean when the variance is 0, any sign otherwise.
NormalSigns(ewm) == IF ewm.var = 0 THEN {Sign(ewm.mean)} ELSE {-1, 0, 1}

\* pivot_signal, lines 304-311, for a drawn sample of sign sgn
PivotSignal(sgn, order_side) ==
    0 > sgn * (IF order_side = "BUY" THEN -1 ELSE 1)

\* DetermineOrderSide that flips the side while the contrarian flag is off
DetermineOrderSideFlipsWhenOff(vd, opn, contr, tr) ==
    LET outside == vd.mean * vd.mean
                     > tr.sigma_trigger * tr.sigma_trigger * vd.var * FracScale
        fw_side == IF opn
                   THEN IF vd.mean > 0 /\ outside THEN "BUY"
                        ELSE IF vd.mean < 0 /\ outside THEN "SELL"
                        ELSE None
                   ELSE IF vd.mean > 0 THEN "BUY" ELSE "SELL"
    IN  IF fw_side # None /\ ~contr THEN Opposite(fw_side) ELSE fw_side

\* _determine_order_side.  With m = mean and v = var in fixed point and
\* sigma_trigger >= 0, min(band) > 0 is m > 0 /\ m^2 > sigma^2 * var, and
\* max(band) < 0 is m < 0 /\ m^2 > sigma^2 * var.
DetermineOrderSide(vd, opn, contr, tr) ==
    LET outside == vd.mean * vd.mean
                     > tr.sigma_trigger * tr.sigma_trigger * vd.var * FracScale
        fw_side == IF opn
                   THEN IF vd.mean > 0 /\ outside THEN "BUY"
                        ELSE IF vd.mean < 0 /\ outside THEN "SELL"
                        ELSE None
                   ELSE IF vd.mean > 0 THEN "BUY" ELSE "SELL"
    IN  IF fw_side # None /\ contr THEN Opposite(fw_side) ELSE fw_side

\* round(x * 1000) / 1000 on a size
RoundMilli(x) == RoundDiv(x, Milli) * Milli

\* BetSize whose Martingale adds a unit after a loss instead of doubling
BetSizeMartingaleAdds(bet, won, last_size, unit) ==
    IF bet = "Martingale" THEN (IF won THEN unit ELSE last_size + unit)
    ELSE IF bet = "d'Alembert" THEN (IF won THEN unit ELSE last_size + unit)
    ELSE IF bet = "Oscar's grind" THEN (IF won THEN last_size + unit ELSE unit)
    ELSE unit

\* bet_size of lines 198-214
BetSize(bet, won, last_size, unit) ==
    IF bet = "Martingale" THEN (IF won THEN unit ELSE last_size * 2)
    ELSE IF bet = "d'Alembert" THEN (IF won THEN unit ELSE last_size + unit)
    ELSE IF bet = "Oscar's grind" THEN (IF won THEN last_size + unit ELSE unit)
    ELSE unit

\* _compute_order_size, line 195: self.last_open['size'] with last_open = None
\* raises TypeError.
ComputeOrderSizeRaises(opn, nso, lo) == opn /\ nso = 1 /\ lo = NoTrade

\* ComputeOrderSize that applies the policy again after one oversize rejection
ComputeOrderSizeRegrow(opn, r_size, nso, lo, collat, tr) ==
    IF ~opn THEN r_size
    ELSE IF nso <= 1 /\ lo # NoTrade
         THEN LET won      == lo[1].collat < collat
                  bet_size == BetSize(tr.bet, won, lo[1].size, tr.size.unit)
                  cap      == IF tr.size.max = 0 THEN bet_size ELSE tr.size.max
              IN  RoundMilli(Min(bet_size, cap))
    ELSE tr.size.unit

\* ComputeOrderSize that closes a position one unit at a time
ComputeOrderSizeCloseUnit(opn, r_size, nso, lo, collat, tr) ==
    IF ~opn THEN tr.size.unit
    ELSE IF nso = 1 THEN (IF lo = NoTrade THEN Null ELSE lo[1].size)
    ELSE IF nso = 0 /\ lo # NoTrade
         THEN LET won      == lo[1].collat < collat
                  bet_size == BetSize(tr.bet, won, lo[1].size, tr.size.unit)
                  cap      == IF tr.size.max = 0 THEN bet_size ELSE tr.size.max
              IN  RoundMilli(Min(bet_size, cap))
    ELSE tr.size.unit

\* ComputeOrderSize that applies the policy whenever the counter is not 1
ComputeOrderSizePolicyAfterTwo(opn, r_size, nso, lo, collat, tr) ==
    IF ~opn THEN r_size
    ELSE IF nso = 1 THEN (IF lo = NoTrade THEN Null ELSE lo[1].size)
    ELSE IF lo # NoTrade
         THEN LET won      == lo[1].collat < collat
                  bet_size == BetSize(tr.bet, won, lo[1].size, tr.size.unit)
                  cap      == IF tr.size.max = 0 THEN bet_size ELSE tr.size.max
              IN  RoundMilli(Min(bet_size, cap))
    ELSE tr.size.unit

\* ComputeOrderSize that does not clamp the bet size to max
ComputeOrderSizeNoCap(opn, r_size, nso, lo, collat, tr) ==
    IF ~opn THEN r_size
    ELSE IF nso = 1 THEN (IF lo = NoTrade THEN Null ELSE lo[1].size)
    ELSE IF nso = 0 /\ lo # NoTrade
         THEN RoundMilli(BetSize(tr.bet, lo[1].collat < collat, lo[1].size,
                                 tr.size.unit))
    ELSE tr.size.unit

\* _compute_order_size.  trade['size'].get('max') is None when absent; None and
\* 0 are both falsy in "max or bet_size" and are both held as 0.
ComputeOrderSize(opn, r_size, nso, lo, collat, tr) ==
    IF ~opn THEN r_size
    ELSE IF nso = 1 THEN (IF lo = NoTrade THEN Null ELSE lo[1].size)
    ELSE IF nso = 0 /\ lo # NoTrade
         THEN LET won      == lo[1].collat < collat
                  bet_size == BetSize(tr.bet, won, lo[1].size, tr.size.unit)
                  cap      == IF tr.size.max = 0 THEN bet_size ELSE tr.size.max
              IN  RoundMilli(Min(bet_size, cap))
    ELSE tr.size.unit

\* self.sfd_pins, in percent
SfdPins == {5, 10, 15, 20}

SetMin(S) == CHOOSE x \in S : \A y \in S : x <= y

\* fx_deviation = (fx - origin) / origin as a fraction num/den, den > 0, for the
\* mid prices PriceStep^fx and PriceStep^origin, PriceStep = 105/100
FxDeviation(fx, origin) ==
    LET d == fx - origin
    IN  IF d >= 0
        THEN [num |-> Pow(105, d) - Pow(100, d), den |-> Pow(100, d)]
        ELSE [num |-> Pow(100, -d) - Pow(105, -d), den |-> Pow(105, -d)]

\* sfd_penalized, lines 117-120
SfdPenalized(dev) ==
    IF Abs(dev.num) * 100 >= SetMin(SfdPins) * dev.den
    THEN (IF dev.num >= 0 THEN "BUY" ELSE "SELL")
    ELSE None

\* _fetch_states raises (BfbotError, KeyError, ...) on a response that is not of
\* the expected shape; resp.bad names the malformed response, None when all are
\* well formed.
FetchStatesRaises(resp) == resp.bad # None

\* _fetch_states on well-formed responses
FetchStates(resp) ==
    LET sell     == SumSide(resp.positions, "SELL")
        buy      == SumSide(resp.positions, "BUY")
        pos_size == Max(sell, buy)
        pos_side == IF pos_size > 0
                    THEN (IF sell = pos_size THEN "SELL" ELSE "BUY")
                    ELSE None
    IN  [collat |-> resp.collateral, pos_side |-> pos_side, pos_size |-> pos_size,
         price |-> resp.fx,
         sfd_penalized |-> SfdPenalized(FxDeviation(resp.fx, resp.origin))]

\* StillPending without the timeout test
StillPendingForever(r_size, od, st, t, timeout) ==
    /\ r_size # Null
    /\ od # Null
    /\ Abs(r_size - st.pos_size) >= Milli

\* StillPending with the size test strict (> 0.001)
StillPendingStrict(r_size, od, st, t, timeout) ==
    /\ r_size # Null
    /\ od # Null
    /\ Abs(r_size - st.pos_size) > Milli
    /\ t - od < timeout

\* lines 224-229: the previous order is still in flight
StillPending(r_size, od, st, t, timeout) ==
    /\ r_size # Null
    /\ od # Null
    /\ Abs(r_size - st.pos_size) >= Milli
    /\ t - od < timeout

\* Loading one event short
LoadingOffByOne(n) == n > 1

\* line 49 negated: the event is consumed by the warm-up
Loading(n) == n > 0

\* SkipReason without the sfd penalty rule
SkipReasonNoSfd(r_size, r_side, order_side, st) ==
    IF Abs(r_size - st.pos_size) >= Milli THEN "Skip by queue"
    ELSE IF order_side = None THEN "Skip by volume difference"
    ELSE IF order_side = r_side THEN "Skip by position"
    ELSE None

\* SkipReason with the sfd penalty rule ahead of the position rule
SkipReasonSfdFirst(r_size, r_side, order_side, st) ==
    IF Abs(r_size - st.pos_size) >= Milli THEN "Skip by queue"
    ELSE IF order_side = None THEN "Skip by volume difference"
    ELSE IF order_side = st.sfd_penalized THEN "Skip by sfd penalty"
    ELSE IF order_side = r_side THEN "Skip by position"
    ELSE None

\* lines 245-264: the message of the skip that applies, None when none does
SkipReason(r_size, r_side, order_side, st) ==
    IF Abs(r_size - st.pos_size) >= Milli THEN "Skip by queue"
    ELSE IF order_side = None THEN "Skip by volume difference"
    ELSE IF order_side = r_side THEN "Skip by position"
    ELSE IF order_side = st.sfd_penalized THEN "Skip by sfd penalty"
    ELSE None

\* lines 278-282
OrderIsAccepted(order) == order.acceptance_id

\* SizeOverIncrement counting every rejection that carries a status
SizeOverIncrementAnyStatus(order) == IF order.status # Null THEN 1 ELSE 0

\* lines 325-327: int('status' in order and order['status'] == -205)
SizeOverIncrement(order) ==
    IF order.status # Null /\ order.status = SizeOverStatus THEN 1 ELSE 0

\* lines 293-300: bookkeeping of an accepted opening order
AcceptedOpen(r_size, order_side, order_size, st) ==
    [last_open     |-> << [side |-> order_side, size |-> order_size,
                           price |-> st.price, collat |-> st.collat] >>,
     reserved_size |-> r_size + order_size,
     reserved_side |-> order_side]

\* AcceptedClose that never clears the reserved side
AcceptedCloseKeepSide(r_size, order_side, order_size) ==
    [reserved_size |-> r_size - order_size,
     reserved_side |-> Opposite(order_side)]

\* lines 314-322: bookkeeping of an accepted closing order
AcceptedClose(r_size, order_side, order_size) ==
    LET size == r_size - order_size
    IN  [reserved_size |-> size,
         reserved_side |-> IF Abs(size) < Milli THEN None
                           ELSE IF size <= -Milli THEN order_side
                           ELSE Opposite(order_side)]

(***************************************************************************)
(* Inputs of one event.                                                    *)
(***************************************************************************)
\* sizes of the execution records
ExecSizes == {0, 1}

ExecRecords == [side : Sides, size : ExecSizes]

SeqsUpTo(S, n) == UNION {[1..k -> S] : k \in 0..n}

\* the execution batches of an event: empty, or one record
Batches == SeqsUpTo(ExecRecords, 1)

\* the gateway accepts no order above MaxOrderSize
MaxOrderSize == 8

Collats == {1}

PosSizes == {2}

\* mid prices of the two tickers, as exponents of PriceStep
Tickers == {[fx |-> 0, origin |-> 0], [fx |-> 1, origin |-> 0],
            [fx |-> 0, origin |-> 2]}

\* the position lists of a snapshot: empty, or one position
PositionLists == SeqsUpTo([side : Sides, size : PosSizes], 1)

\* getcollateral, getpositions and ticker answers that are all well formed
GoodResponses(collats, lists, tickers) ==
    {[bad |-> None, collateral |-> c, positions |-> p, fx |-> t.fx,
      origin |-> t.origin] : c \in collats, p \in lists, t \in tickers}

\* answers of which one is malformed
BadResponses ==
    [bad : {"collateral", "positions", "ticker"}, collateral : {Null},
     positions : {<< >>}, fx : {0}, origin : {0}]

Responses == GoodResponses(Collats, PositionLists, Tickers) \cup BadResponses

\* sendchildorder answers: an exception, an acceptance, a rejection with the
\* oversize status, with another status, without a status
Gateway ==
    [raises : {TRUE}, acceptance_id : {FALSE}, status : {Null}]
    \cup [raises : {FALSE}, acceptance_id : {TRUE}, status : {Null}]
    \cup [raises : {FALSE}, acceptance_id : {FALSE},
          status : {SizeOverStatus, -200, Null}]

(***************************************************************************)
(* State.                                                                  *)
(***************************************************************************)
VARIABLES
    trade,            \* config['trade']: ewm_alpha, sigma_trigger, bet, size
    pivot,            \* the pivot option
    timeout_delta,    \* the timeout option, in ticks
    open,
    contrary,
    n_load,
    ewm_vd,
    ewm_lrr,
    stat,
    volumes,
    reserved_side,
    reserved_size,
    order_datetime,   \* Null, or the tick the accepted order was recorded at
    last_open,
    n_size_over,
    now,              \* datetime.now() in ticks since the recorded order time
    out               \* what the last event did: fetch, orders, prints, errors

config == << trade, pivot, timeout_delta >>

engine == << open, contrary, n_load, ewm_vd, ewm_lrr, stat, volumes,
             reserved_side, reserved_size, order_datetime, last_open,
             n_size_over >>

vars == << trade, pivot, timeout_delta, open, contrary, n_load, ewm_vd, ewm_lrr,
           stat, volumes, reserved_side, reserved_size, order_datetime,
           last_open, n_size_over, now, out >>

\* the record of an event that did nothing: the snapshot fetch ("none", "ok",
\* "error") and the malformed answer, the reconciler's log line and the reason
\* of a calibration, the orders submitted, the gateway's result and status, the
\* lines printed, the exception that left the handler, the order size logged by
\* _compute_order_size, the execution batch of the event, the fx_deviation
\* logged by _fetch_states (den = 0 when none was computed)
NoOut == [fetch |-> "none", bad |-> None, info |-> None, why |-> None,
          orders |-> << >>, result |-> None, status |-> Null,
          printed |-> << >>, raised |-> None, order_size |-> Null,
          batch |-> << >>, deviation |-> [num |-> 0, den |-> 0]]

\* __init__, lines 28-39, for the options cfg
InitWith(cfg) ==
    /\ trade = cfg.trade
    /\ pivot = cfg.pivot
    /\ timeout_delta = cfg.timeout
    /\ open = TRUE
    /\ contrary = FALSE
    /\ n_load = NLoad
    /\ ewm_vd = [mean |-> 0, var |-> FracScale]
    /\ ewm_lrr = [mean |-> 0, var |-> FracScale]
    /\ stat = [collat |-> Null, pos_side |-> None, pos_size |-> Null,
               price |-> Null, sfd_penalized |-> None]
    /\ volumes = [BUY |-> Null, SELL |-> Null]
    /\ reserved_side = None
    /\ reserved_size = Null
    /\ order_datetime = Null
    /\ last_open = NoTrade
    /\ n_size_over = 0
    /\ now = 0
    /\ out = NoOut

(***************************************************************************)
(* The handler.                                                            *)
(***************************************************************************)
\* lines 230-235: the reserved position and order time after reconciliation
Reconciled(pending, st) ==
    IF pending
    THEN [reserved_size |-> reserved_size, reserved_side |-> reserved_side,
          order_datetime |-> order_datetime, now |-> now,
          info |-> "Wait for execution"]
    ELSE [reserved_size |-> st.pos_size, reserved_side |-> st.pos_side,
          order_datetime |-> Null, now |-> 0,
          info |-> "Calibrate reserved size"]

\* which conjunct of lines 225-228 sent the reconciliation to its else branch
WhyCalibrated(st) ==
    IF reserved_size = Null \/ order_datetime = Null THEN "unset"
    ELSE IF Abs(reserved_size - st.pos_size) < Milli THEN "match"
    ELSE "timeout"

\* no order is submitted (a skip, or the size computation raised): the
\* reconciled values rec stay
Unsubmitted(rec) ==
    [reserved_size |-> rec.reserved_size, reserved_side |-> rec.reserved_side,
     order_datetime |-> rec.order_datetime, now |-> rec.now,
     last_open |-> last_open, n_size_over |-> n_size_over]

\* AfterException that records the order time although the call raised
AfterExceptionStamped(rec) ==
    [reserved_size |-> rec.reserved_size, reserved_side |-> rec.reserved_side,
     order_datetime |-> 0, now |-> 0,
     last_open |-> last_open, n_size_over |-> n_size_over]

\* lines 274-275: sendchildorder raised; the reconciled values rec stay
AfterException(rec) ==
    [reserved_size |-> rec.reserved_size, reserved_side |-> rec.reserved_side,
     order_datetime |-> rec.order_datetime, now |-> rec.now,
     last_open |-> last_open, n_size_over |-> n_size_over]

\* lines 324-328: the order was rejected with the answer gw
AfterRejected(rec, gw) ==
    [reserved_size |-> rec.reserved_size, reserved_side |-> rec.reserved_side,
     order_datetime |-> rec.order_datetime, now |-> rec.now,
     last_open |-> last_open,
     n_size_over |-> n_size_over + SizeOverIncrement(gw)]

\* AfterAccepted that clears the last open trade when the position is closed
AfterAcceptedClearsLastOpen(rec, opn, order_side, order_size, st) ==
    LET o == AcceptedOpen(rec.reserved_size, order_side, order_size, st)
        c == AcceptedClose(rec.reserved_size, order_side, order_size)
    IN  [reserved_size |-> IF opn THEN o.reserved_size ELSE c.reserved_size,
         reserved_side |-> IF opn THEN o.reserved_side ELSE c.reserved_side,
         order_datetime |-> 0, now |-> 0,
         last_open |-> IF opn THEN o.last_open ELSE NoTrade,
         n_size_over |-> 0]

\* lines 290-323, without the pivot: the order was accepted
AfterAccepted(rec, opn, order_side, order_size, st) ==
    LET o == AcceptedOpen(rec.reserved_size, order_side, order_size, st)
        c == AcceptedClose(rec.reserved_size, order_side, order_size)
    IN  [reserved_size |-> IF opn THEN o.reserved_size ELSE c.reserved_size,
         reserved_side |-> IF opn THEN o.reserved_side ELSE c.reserved_side,
         order_datetime |-> 0, now |-> 0,
         last_open |-> IF opn THEN o.last_open ELSE last_open,
         n_size_over |-> 0]

\* lines 302-313: the contrary flags the pivot can leave after an accepted
\* closing order, lrr being the updated self.ewm_lrr
Pivoted(lrr, order_side) ==
    {IF PivotSignal(sgn, order_side) THEN ~contrary ELSE contrary :
        sgn \in NormalSigns(lrr)}

\* Pivots that also draws after an accepted opening order
PivotsOnOpen(opn) == pivot

\* lines 301-302: the accepted order was a closing one and the pivot is enabled
Pivots(opn) == ~opn /\ pivot

\* the assignments of one cycle to the reserved position and the bookkeeping
Assign(after) ==
    /\ reserved_size' = after.reserved_size
    /\ reserved_side' = after.reserved_side
    /\ order_datetime' = after.order_datetime
    /\ now' = after.now
    /\ last_open' = after.last_open
    /\ n_size_over' = after.n_size_over

\* _trade, lines 266-328: the order is submitted and answered by gw; rec holds
\* the reconciled values, opn is self.open, o the cycle's record so far
Submit(rec, opn, order_side, order_size, st, gw, o) ==
    LET order == [side |-> order_side, size |-> order_size,
                  child_order_type |-> "MARKET"]
        sent  == [o EXCEPT !.orders = << order >>, !.status = gw.status,
                           !.order_size = order_size]
    IN  IF gw.raises
        THEN /\ out' = [sent EXCEPT !.result = "exception"]
             /\ Assign(AfterException(rec))
             /\ UNCHANGED << contrary, ewm_lrr >>
        ELSE IF OrderIsAccepted(gw)
        THEN /\ out' = [sent EXCEPT !.result = "accepted",
                                    !.printed = << "Accepted" >>]
             /\ Assign(AfterAccepted(rec, opn, order_side, order_size, st))
             /\ IF Pivots(opn)
                THEN LET lrr == ComputeEwmLogReturnRate(st, last_open, ewm_lrr,
                                                        trade)
                     IN  /\ ewm_lrr' = lrr
                         /\ contrary' \in Pivoted(lrr, order_side)
                ELSE UNCHANGED << contrary, ewm_lrr >>
        ELSE /\ out' = [sent EXCEPT !.result = "rejected",
                                    !.printed = << "Rejected" >>]
             /\ Assign(AfterRejected(rec, gw))
             /\ UNCHANGED << contrary, ewm_lrr >>

\* _trade on the snapshot st, with self.ewm_vd already updated to vd; ev is
\* the record of the event so far
Trade(ev, vd, st) ==
    LET pending    == StillPending(reserved_size, order_datetime, st, now,
                                   timeout_delta)
        rec        == Reconciled(pending, st)
        opn        == rec.reserved_size < trade.size.unit
        order_side == DetermineOrderSide(vd, opn, contrary, trade)
        order_size == ComputeOrderSize(opn, rec.reserved_size, n_size_over,
                                       last_open, st.collat, trade)
        skip       == SkipReason(rec.reserved_size, rec.reserved_side,
                                 order_side, st)
        o          == [ev EXCEPT !.fetch = "ok", !.info = rec.info,
                                    !.why = IF pending THEN None
                                            ELSE WhyCalibrated(st)]
    IN  /\ open' = opn
        /\ IF ComputeOrderSizeRaises(opn, n_size_over, last_open)
           THEN /\ out' = [o EXCEPT !.raised = "TypeError"]
                /\ Assign(Unsubmitted(rec))
                /\ UNCHANGED << contrary, ewm_lrr >>
           ELSE IF skip # None
           THEN /\ out' = [o EXCEPT !.printed = << skip >>,
                                    !.order_size = order_size]
                /\ Assign(Unsubmitted(rec))
                /\ UNCHANGED << contrary, ewm_lrr >>
           ELSE \E gw \in Gateway :
                    /\ OrderIsAccepted(gw) => order_size <= MaxOrderSize
                    /\ SizeOverIncrement(gw) > 0 => n_size_over < MaxSizeOver
                    /\ Submit(rec, opn, order_side, order_size, st, gw, o)

\* message(): one execution event, its batch and its snapshot answers drawn
\* from batches and responses
Message(batches, responses) ==
    \E batch \in batches :
        IF VolumesRaises(batch)
        THEN /\ out' = [NoOut EXCEPT !.raised = "KeyError"]
             /\ UNCHANGED << config, engine, now >>
        ELSE LET vols == Volumes(batch)
                 vd   == ComputeEwmVolumeDelta(vols, ewm_vd, trade)
             IN  /\ volumes' = vols
                 /\ ewm_vd' = vd
                 /\ UNCHANGED config
                 /\ IF Loading(n_load)
                    THEN /\ n_load' = n_load - 1
                         /\ out' = [NoOut EXCEPT
                                       !.batch = batch,
                                       !.printed = << "Wait for loading" >>]
                         /\ UNCHANGED << open, contrary, ewm_lrr, stat,
                                         reserved_side, reserved_size,
                                         order_datetime, last_open, n_size_over,
                                         now >>
                    ELSE /\ UNCHANGED n_load
                         /\ \E resp \in responses :
                                IF FetchStatesRaises(resp)
                                THEN /\ out' = [NoOut EXCEPT !.batch = batch,
                                                             !.fetch = "error",
                                                             !.bad = resp.bad]
                                     /\ UNCHANGED << open, contrary, ewm_lrr,
                                                     stat, reserved_side,
                                                     reserved_size,
                                                     order_datetime, last_open,
                                                     n_size_over, now >>
                                ELSE /\ stat' = FetchStates(resp)
                                     /\ Trade([NoOut EXCEPT
                                                  !.batch = batch,
                                                  !.deviation =
                                                     FxDeviation(resp.fx,
                                                                 resp.origin)],
                                              vd, FetchStates(resp))

\* time passes while an order time is recorded
Tick ==
    /\ order_datetime # Null
    /\ now < MaxNow
    /\ now' = now + 1
    /\ UNCHANGED << config, engine, out >>

Next == Message(Batches, Responses) \/ Tick

(***************************************************************************)
(* Options.                                                                *)
(***************************************************************************)
Bets == {"Martingale", "d'Alembert", "Oscar's grind", "Kelly"}

Configs ==
    [trade : [ewm_alpha : {2}, sigma_trigger : {1}, bet : {"Martingale"},
              size : [unit : {2}, max : {2}]],
     pivot : {TRUE}, timeout : {2}]

Init == \E cfg \in Configs : InitWith(cfg)

Spec == Init /\ [][Next]_vars

(***************************************************************************)
(* The reconciler under near and far size mismatches and two timeouts.     *)
(***************************************************************************)
RecConfigs ==
    [trade : [ewm_alpha : {2}, sigma_trigger : {1}, bet : {"Martingale"},
              size : [unit : {2}, max : {2}]],
     pivot : {FALSE}, timeout : {1, 2}]

RecResponses ==
    GoodResponses({1}, SeqsUpTo([side : Sides, size : {1, 2}], 1),
                  {[fx |-> 0, origin |-> 0]})
    \cup BadResponses

InitRec == \E cfg \in RecConfigs : InitWith(cfg)

NextRec == Message(Batches, RecResponses) \/ Tick

SpecRec == InitRec /\ [][NextRec]_vars

(***************************************************************************)
(* The bet sizes under every policy, with an exchange that reports either  *)
(* no position or the reserved one.                                        *)
(***************************************************************************)
\* unit and max: no max, a max that is a multiple of the unit, one that is not,
\* one below the unit, a unit off the 0.001 grid
BetSizes == {[unit |-> 2, max |-> 0], [unit |-> 2, max |-> 8],
             [unit |-> 4, max |-> 6], [unit |-> 4, max |-> 2],
             [unit |-> 3, max |-> 0]}

BetConfigs ==
    [trade : [ewm_alpha : {2}, sigma_trigger : {1}, bet : Bets,
              size : BetSizes],
     pivot : {FALSE}, timeout : {1}]

BetBatches == {<< [side |-> "BUY", size |-> 1] >>,
               << [side |-> "SELL", size |-> 1] >>}

ReservedPositions ==
    {<< >>} \cup (IF reserved_size # Null /\ reserved_size > 0
                       /\ reserved_side # None
                  THEN {<< [side |-> reserved_side, size |-> reserved_size] >>}
                  ELSE {})

BetResponses ==
    GoodResponses({1, 2}, ReservedPositions, {[fx |-> 0, origin |-> 0]})

InitBet == \E cfg \in BetConfigs : InitWith(cfg)

NextBet == Message(BetBatches, BetResponses) \/ Tick

SpecBet == InitBet /\ [][NextBet]_vars

(***************************************************************************)
(* The confidence band under alpha = 1/2 and alpha = 1, with an exchange   *)
(* that reports either no position or the reserved one.                    *)
(***************************************************************************)
BandConfigs ==
    [trade : [ewm_alpha : {1, 2}, sigma_trigger : {1}, bet : {"Martingale"},
              size : [unit : {2}, max : {4}]],
     pivot : {FALSE}, timeout : {1}]

BandResponses ==
    GoodResponses({1}, ReservedPositions,
                  {[fx |-> 0, origin |-> 0], [fx |-> 1, origin |-> 0]})

InitBand == \E cfg \in BandConfigs : InitWith(cfg)

NextBand == Message(Batches, BandResponses) \/ Tick

SpecBand == InitBand /\ [][NextBand]_vars

(***************************************************************************)
(* The pivot enabled and disabled, with a price that moves between the     *)
(* opening and the closing order.                                          *)
(***************************************************************************)
PivotConfigs ==
    [trade : [ewm_alpha : {2}, sigma_trigger : {1}, bet : {"Martingale"},
              size : [unit : {2}, max : {2}]],
     pivot : BOOLEAN, timeout : {1}]

PivotResponses ==
    GoodResponses({1}, ReservedPositions,
                  {[fx |-> 0, origin |-> 0], [fx |-> 1, origin |-> 1]})
    \cup BadResponses

InitPivot == \E cfg \in PivotConfigs : InitWith(cfg)

NextPivot == Message(Batches, PivotResponses) \/ Tick

SpecPivot == InitPivot /\ [][NextPivot]_vars

(***************************************************************************)
(* The reconciler when time passes, events keep arriving and snapshot       *)
(* fetches keep succeeding, with an exchange that reports any position.    *)
(***************************************************************************)
LiveConfigs ==
    [trade : [ewm_alpha : {2}, sigma_trigger : {1}, bet : {"Martingale"},
              size : [unit : {2}, max : {2}]],
     pivot : {FALSE}, timeout : {2}]

LiveBatches == {<< [side |-> "BUY", size |-> 1] >>,
                << [side |-> "SELL", size |-> 1] >>}

LiveResponses ==
    GoodResponses(Collats, PositionLists, {[fx |-> 0, origin |-> 0]})
    \cup {r \in BadResponses : r.bad = "positions"}

InitLive == \E cfg \in LiveConfigs : InitWith(cfg)

\* an event whose snapshot fetch succeeds
ActiveCycle == Message(LiveBatches, LiveResponses) /\ out'.fetch = "ok"

NextLive == Message(LiveBatches, LiveResponses) \/ Tick

SpecLive ==
    InitLive /\ [][NextLive]_vars /\ WF_vars(Tick) /\ WF_vars(ActiveCycle)

(***************************************************************************)
(* Properties.                                                             *)
(***************************************************************************)
\* A step of the handler (Tick is the only step that advances the clock).
MessageStep == now' # now + 1

\* the fields a cycle may write besides the statistics
Bookkeeping == << reserved_side, reserved_size, order_datetime, last_open,
                  n_size_over, contrary >>

\* the candidate order side of the cycle just run
CandidateSide == DetermineOrderSide(ewm_vd', open', contrary, trade)

\* C1: while n_load > 0 (the first NLoad events) an event fetches no snapshot,
\* submits no order and writes nothing but the statistics and the countdown,
\* which it lowers by one; once n_load = 0 every event attempts the fetch.
C1_WarmUpNoTrading ==
    [][MessageStep =>
        /\ n_load > 0 =>
              /\ out'.fetch = "none"
              /\ out'.orders = << >>
              /\ UNCHANGED << Bookkeeping, stat, open, ewm_lrr >>
              /\ n_load' = IF out'.raised = "KeyError" THEN n_load
                           ELSE n_load - 1
        /\ (n_load = 0 /\ out'.raised # "KeyError") => out'.fetch # "none"
      ]_vars

\* an event past the warm-up has submitted an order
C1_Witness ==
    /\ n_load = 0
    /\ out.fetch = "ok"
    /\ out.orders # << >>

\* C2: in a cycle past the warm-up with a snapshot, an order time recorded, a
\* size mismatch >= 0.001 and elapsed < timeout, no order is submitted and the
\* reserved side, reserved size and order time stay.
C2_NoOrderWhilePending ==
    [][(/\ MessageStep
        /\ n_load = 0
        /\ out'.fetch = "ok"
        /\ order_datetime # Null
        /\ Abs(reserved_size - stat'.pos_size) >= Milli
        /\ now - order_datetime < timeout_delta)
       => /\ out'.orders = << >>
          /\ UNCHANGED << reserved_side, reserved_size, order_datetime >>
      ]_vars

\* a cycle waited for the execution with the contrarian flag set and an SFD
\* penalty active
C2_Witness ==
    /\ out.info = "Wait for execution"
    /\ out.printed = << "Skip by queue" >>
    /\ order_datetime # Null
    /\ contrary
    /\ stat.sfd_penalized # None

\* C4 as stated: a candidate side equal to the active penalized side always
\* gives zero orders and the one line "Skip by sfd penalty".
C4_AlwaysSfdReason ==
    [][(/\ MessageStep
        /\ out'.fetch = "ok"
        /\ CandidateSide # None
        /\ CandidateSide = stat'.sfd_penalized)
       => /\ out'.orders = << >>
          /\ out'.printed = << "Skip by sfd penalty" >>
      ]_vars

\* C4 amended: a candidate side equal to the active penalized side gives zero
\* orders; the cycle prints nothing when the size computation raised, else
\* exactly one skip: by queue on a size mismatch >= 0.001, else by position when
\* the candidate is the reserved side, else "Skip by sfd penalty".
C4_SfdVetoInPrecedence ==
    [][(/\ MessageStep
        /\ out'.fetch = "ok"
        /\ CandidateSide # None
        /\ CandidateSide = stat'.sfd_penalized)
       => /\ out'.orders = << >>
          /\ out'.printed =
                IF out'.raised = "TypeError" THEN << >>
                ELSE IF Abs(reserved_size' - stat'.pos_size) >= Milli
                     THEN << "Skip by queue" >>
                ELSE IF CandidateSide = reserved_side'
                     THEN << "Skip by position" >>
                ELSE << "Skip by sfd penalty" >>
      ]_vars

\* a cycle was skipped by the sfd penalty
C4_Witness ==
    /\ out.printed = << "Skip by sfd penalty" >>
    /\ out.orders = << >>
    /\ stat.sfd_penalized # None

\* C5: an accepted opening order from a flat position reserves the order's side
\* and size; an accepted closing order has the full reserved size, which is the
\* exchange-reported one, and leaves reserved size 0 and reserved side None.
C5_RoundTrip ==
    [][(MessageStep /\ out'.result = "accepted")
       => IF open'
          THEN stat'.pos_size = 0 =>
                  /\ reserved_size' = out'.orders[1].size
                  /\ reserved_side' = out'.orders[1].side
          ELSE /\ out'.orders[1].size = stat'.pos_size
               /\ reserved_size' = 0
               /\ reserved_side' = None
      ]_vars

\* the leg recorded in last_open has been closed in full by an accepted order
C5_Witness ==
    /\ out.result = "accepted"
    /\ ~open
    /\ last_open # NoTrade
    /\ out.orders[1].size = last_open[1].size
    /\ out.orders[1].side = Opposite(last_open[1].side)
    /\ reserved_size = 0
    /\ reserved_side = None

\* C6: a failed snapshot fetch submits no order and keeps the reserved side and
\* size, order time, last open trade, oversize counter and contrarian flag; a
\* submission that raises leaves the reconciled reserved position, records no
\* order time, writes no last open trade and keeps the counter and the flag.
C6_FailureKeepsState ==
    [][MessageStep =>
        /\ out'.fetch = "error" =>
              /\ out'.orders = << >>
              /\ UNCHANGED Bookkeeping
        /\ out'.result = "exception" =>
              /\ order_datetime' = Null
              /\ reserved_size' = stat'.pos_size
              /\ reserved_side' = stat'.pos_side
              /\ UNCHANGED << last_open, n_size_over, contrary >>
      ]_vars

\* a submission raised after an order was built
C6_Witness ==
    /\ out.result = "exception"
    /\ out.orders # << >>
    /\ order_datetime = Null

\* C7: a rejection adds 1 to the counter when its status is -205 and nothing
\* otherwise, and leaves the reconciled reserved position, no order time, the
\* last open trade and the contrarian flag; an acceptance sets the counter to 0.
C7_OversizeCounter ==
    [][MessageStep =>
        /\ out'.result = "rejected" =>
              /\ n_size_over' = n_size_over
                                + (IF out'.status = SizeOverStatus THEN 1 ELSE 0)
              /\ order_datetime' = Null
              /\ reserved_size' = stat'.pos_size
              /\ reserved_side' = stat'.pos_side
              /\ UNCHANGED << last_open, contrary >>
        /\ out'.result = "accepted" => n_size_over' = 0
      ]_vars

\* an oversize rejection has been counted
C7_Witness ==
    /\ out.result = "rejected"
    /\ out.status = SizeOverStatus
    /\ n_size_over = 1

\* the pending condition of the reconciler on the snapshot just fetched
PendingCondition ==
    /\ order_datetime # Null
    /\ Abs(reserved_size - stat'.pos_size) >= Milli
    /\ now - order_datetime < timeout_delta

\* C3: in a cycle past the warm-up with a snapshot the reconciler waits exactly
\* when the pending condition holds; otherwise it calibrates: without an
\* accepted order the cycle ends with the reserved size and side of the exchange
\* and no order time, and an accepted order moves the reserved size from the
\* exchange-reported one by the order size.
C3_CalibrateUnlessPending ==
    [][(MessageStep /\ n_load = 0 /\ out'.fetch = "ok")
       => IF PendingCondition
          THEN out'.info = "Wait for execution"
          ELSE /\ out'.info = "Calibrate reserved size"
               /\ IF out'.result = "accepted"
                  THEN /\ order_datetime' = 0
                       /\ reserved_size' =
                             IF open'
                             THEN stat'.pos_size + out'.orders[1].size
                             ELSE stat'.pos_size - out'.orders[1].size
                  ELSE /\ reserved_size' = stat'.pos_size
                       /\ reserved_side' = stat'.pos_side
                       /\ order_datetime' = Null
      ]_vars

\* a recorded order with a size mismatch >= 0.001 timed out and the reserved
\* position was overwritten from the exchange
C3_Witness ==
    /\ out.why = "timeout"
    /\ out.info = "Calibrate reserved size"
    /\ out.result # "accepted"
    /\ reserved_size = stat.pos_size
    /\ reserved_side = stat.pos_side
    /\ order_datetime = Null

\* the clamp of _compute_order_size
Cap(bet_size) == IF trade.size.max = 0 THEN bet_size ELSE trade.size.max

\* C8 as stated: the opening order that follows an opening order rejected once
\* for oversize has that order's size.
C8_RetrySameAsAttempt ==
    [][(/\ MessageStep
        /\ out.result = "rejected"
        /\ out.status = SizeOverStatus
        /\ open
        /\ n_size_over = 1
        /\ open'
        /\ out'.orders # << >>)
       => out'.orders[1].size = out.orders[1].size
      ]_vars

\* C8 amended: with the counter at 1, a size computed for an opening order is
\* the size of the last accepted opening order, whatever the policy and the
\* collateral are.
C8_RetryLastOpenSize ==
    [][(/\ MessageStep
        /\ out'.fetch = "ok"
        /\ n_size_over = 1
        /\ open'
        /\ out'.order_size # Null)
       => /\ last_open # NoTrade
          /\ out'.order_size = last_open[1].size
      ]_vars

\* the retry after one oversize rejection was submitted with the last open
\* size and rejected for oversize again
C8_Witness ==
    /\ out.result = "rejected"
    /\ out.status = SizeOverStatus
    /\ open
    /\ n_size_over = 2
    /\ last_open # NoTrade
    /\ out.orders[1].size = last_open[1].size

\* C9 as stated: under Martingale with a prior open trade the opening size is
\* 2 * last_open.size clamped to max after a loss and the unit after a win.
C9_MartingaleAsStated ==
    [][(/\ MessageStep
        /\ out'.fetch = "ok"
        /\ trade.bet = "Martingale"
        /\ open'
        /\ last_open # NoTrade
        /\ out'.order_size # Null)
       => out'.order_size =
             IF last_open[1].collat >= stat'.collat
             THEN Min(2 * last_open[1].size, Cap(2 * last_open[1].size))
             ELSE trade.size.unit
      ]_vars

\* C9 amended: under Martingale with a prior open trade the opening size is,
\* with the counter at 0, 2 * last_open.size after a loss and the unit after a
\* win, clamped to max and rounded to the nearest 0.001; with the counter at 1
\* it is last_open.size, and above 1 it is the unit.
C9_MartingaleByCounter ==
    [][(/\ MessageStep
        /\ out'.fetch = "ok"
        /\ trade.bet = "Martingale"
        /\ open'
        /\ last_open # NoTrade
        /\ out'.order_size # Null)
       => out'.order_size =
             IF n_size_over = 0
             THEN LET bet_size == IF last_open[1].collat >= stat'.collat
                                  THEN 2 * last_open[1].size
                                  ELSE trade.size.unit
                  IN  RoundDiv(Min(bet_size, Cap(bet_size)), Milli) * Milli
             ELSE IF n_size_over = 1 THEN last_open[1].size
             ELSE trade.size.unit
      ]_vars

\* two losses in a row: the third opening order, of 4 units, was accepted
C9_Witness ==
    /\ trade.bet = "Martingale"
    /\ trade.size.max = 0
    /\ out.result = "accepted"
    /\ open
    /\ out.orders[1].size = 4 * trade.size.unit

\* C10 as stated: the size computed for an opening order is a positive multiple
\* of the unit and not above max, for every unit and max.
C10_UnitMultipleBelowMax ==
    (out.fetch = "ok" /\ open /\ out.order_size # Null)
    => /\ out.order_size > 0
       /\ out.order_size % trade.size.unit = 0
       /\ trade.size.max # 0 => out.order_size <= trade.size.max

\* C10 amended: when the unit is a multiple of 0.001 and max is absent (or 0) or
\* a multiple of the unit, the size computed for an opening order is a positive
\* multiple of the unit and not above max.
C10_UnitMultipleWhenMaxFits ==
    (/\ out.fetch = "ok"
     /\ open
     /\ out.order_size # Null
     /\ trade.size.unit % Milli = 0
     /\ trade.size.max % trade.size.unit = 0)
    => /\ out.order_size > 0
       /\ out.order_size % trade.size.unit = 0
       /\ trade.size.max # 0 => out.order_size <= trade.size.max

\* an opening size was clamped to a max of several units
C10_Witness ==
    /\ out.fetch = "ok"
    /\ open
    /\ trade.size.max > trade.size.unit
    /\ trade.size.max % trade.size.unit = 0
    /\ trade.size.unit % Milli = 0
    /\ out.order_size = trade.size.max

\* the last open trade an accepted opening order of the cycle just run records
RecordedOpen ==
    << [side |-> out'.orders[1].side, size |-> out'.orders[1].size,
        price |-> stat'.price, collat |-> stat'.collat] >>

\* C11 as stated: a last open trade is recorded only while a position is open,
\* on the engine's books or at the exchange.
C11_LastOpenOnlyWhileOpen ==
    last_open # NoTrade => (reserved_size >= Milli \/ stat.pos_size >= Milli)

\* C11 amended: the last open trade is none until the first accepted opening
\* order; an accepted opening order sets it to that order's side and size and
\* the snapshot's price and collateral, and no other step writes it: once
\* set it is never none again, also after the position has been closed.
C11_LastOpenKept ==
    [][/\ last_open # NoTrade => last_open' # NoTrade
       /\ (MessageStep /\ out'.result = "accepted" /\ open')
             => last_open' = RecordedOpen
       /\ last_open' # last_open
             => (MessageStep /\ out'.result = "accepted" /\ open')
      ]_vars

\* the position was closed and the exchange reports none, the closed leg is
\* still recorded
C11_Witness ==
    /\ out.fetch = "ok"
    /\ stat.pos_size = 0
    /\ reserved_size = 0
    /\ last_open # NoTrade

\* the volume-delta confidence band mean -+ sigma_trigger * sqrt(var) of the
\* statistics vd lies entirely above zero
BandAboveZero(vd) ==
    /\ vd.mean > 0
    /\ vd.mean * vd.mean
         > trade.sigma_trigger * trade.sigma_trigger * vd.var * FracScale

\* C12: the first event past the warm-up that gets a snapshot, with the band
\* entirely above zero, a flat exchange position, no last open trade, the
\* contrarian flag off and BUY not SFD-penalized, submits exactly one order:
\* MARKET, BUY, of the unit size.
C12_FirstBuyOfUnit ==
    [][(/\ MessageStep
        /\ n_load = 0
        /\ stat.collat = Null
        /\ out'.fetch = "ok"
        /\ BandAboveZero(ewm_vd')
        /\ stat'.pos_size = 0
        /\ last_open = NoTrade
        /\ ~contrary
        /\ stat'.sfd_penalized # "BUY")
       => out'.orders = << [side |-> "BUY", size |-> trade.size.unit,
                            child_order_type |-> "MARKET"] >>
      ]_vars

\* a band of positive width lay above zero and the first order, a BUY of the
\* unit size, was accepted
C12_Witness ==
    /\ n_load = 0
    /\ ewm_vd.var > 0
    /\ BandAboveZero(ewm_vd)
    /\ out.why = "unset"
    /\ out.result = "accepted"
    /\ out.orders = << [side |-> "BUY", size |-> trade.size.unit,
                        child_order_type |-> "MARKET"] >>
    /\ last_open = << [side |-> "BUY", size |-> trade.size.unit,
                       price |-> stat.price, collat |-> stat.collat] >>

\* C13: after every event the aggregate has a BUY and a SELL entry, each the
\* sum of the sizes of that side in the event's batch, the empty batch
\* included.
C13_AggregationTotal ==
    out # NoOut
    => /\ out.raised = None
       /\ volumes = [BUY  |-> SumSide(out.batch, "BUY"),
                     SELL |-> SumSide(out.batch, "SELL")]

\* the logged fx deviation dev lies less than dist percentage points from one
\* of the SFD pins
NearSfdBoundary(dev, dist) ==
    /\ dev.den # 0
    /\ \E pin \in SfdPins :
          Abs(100 * Abs(dev.num) - pin * dev.den) < dist * dev.den

\* C14 as stated: a cycle within one percentage point of an SFD pin whose
\* candidate side is the position side, with a position of at least the maximum
\* size, submits no order and reports an SFD reason, not the position one.
C14_NearSfdBeforePosition ==
    [][(/\ MessageStep
        /\ out'.fetch = "ok"
        /\ NearSfdBoundary(out'.deviation, 1)
        /\ CandidateSide # None
        /\ CandidateSide = stat'.pos_side
        /\ stat'.pos_size >= trade.size.max)
       => /\ out'.orders = << >>
          /\ out'.printed # << "Skip by position" >>
      ]_vars

\* C14 amended: a cycle whose candidate side is the exchange position's side
\* submits no order and reports "Skip by position", however near an SFD pin
\* the deviation is and whichever side is penalized; it reports "Skip by
\* queue" instead while the reserved size differs from the exchange size by
\* >= 0.001, and prints nothing when the size computation raised.
C14_PositionVetoFirst ==
    [][(/\ MessageStep
        /\ out'.fetch = "ok"
        /\ CandidateSide # None
        /\ CandidateSide = stat'.pos_side)
       => /\ out'.orders = << >>
          /\ out'.printed =
                IF out'.raised = "TypeError" THEN << >>
                ELSE IF Abs(reserved_size' - stat'.pos_size) >= Milli
                     THEN << "Skip by queue" >>
                ELSE << "Skip by position" >>
      ]_vars

\* a cycle on an SFD pin whose candidate side was both the position side and
\* the penalized side was skipped by position
C14_Witness ==
    /\ out.printed = << "Skip by position" >>
    /\ NearSfdBoundary(out.deviation, 1)
    /\ stat.sfd_penalized = stat.pos_side
    /\ trade.size.max > 0
    /\ stat.pos_size >= trade.size.max
    /\ reserved_side = stat.pos_side

\* C15: with ewm_alpha = 1, once an event has been aggregated the volume-delta
\* statistics are the buy-minus-sell volume of the last aggregated event with
\* variance 0, whatever they were before.
C15_AlphaOneTracksSample ==
    (trade.ewm_alpha = AlphaDen /\ volumes.BUY # Null)
    => ewm_vd = [mean |-> (volumes.BUY - volumes.SELL) * FracScale, var |-> 0]

\* with ewm_alpha = 1 a later event with more SELL than BUY volume replaced
\* statistics that were not the initial ones
C15_Witness ==
    /\ trade.ewm_alpha = AlphaDen
    /\ n_load <= NLoad - 2
    /\ out.batch # << >>
    /\ volumes.SELL > volumes.BUY
    /\ ewm_vd = [mean |-> (volumes.BUY - volumes.SELL) * FracScale, var |-> 0]

\* C16: an order submitted in closing mode (reserved size >= unit) has the
\* whole reserved size, which is the exchange-reported one, and the side
\* opposite to the reserved side, under every bet policy; when it is not
\* accepted the reserved position stays, and its acceptance leaves reserved
\* size 0 and no reserved side.
C16_FullClose ==
    [][(MessageStep /\ out'.fetch = "ok" /\ ~open' /\ out'.orders # << >>)
       => /\ Len(out'.orders) = 1
          /\ out'.orders[1].size = stat'.pos_size
          /\ out'.orders[1].size = out'.order_size
          /\ out'.orders[1].size >= trade.size.unit
          /\ out'.orders[1].side = Opposite(stat'.pos_side)
          /\ IF out'.result = "accepted"
             THEN reserved_size' = 0 /\ reserved_side' = None
             ELSE /\ reserved_size' = out'.orders[1].size
                  /\ reserved_side' = Opposite(out'.orders[1].side)
      ]_vars

\* a position of several units was closed in full by one accepted order under
\* a policy that would have bet another size
C16_Witness ==
    /\ out.fetch = "ok"
    /\ ~open
    /\ out.result = "accepted"
    /\ trade.bet = "d'Alembert"
    /\ out.orders[1].size = 3 * trade.size.unit
    /\ out.orders[1].side = Opposite(stat.pos_side)
    /\ reserved_size = 0

\* C17: every cycle that gets a snapshot computes an order size and ends
\* without an error leaving the handler.
C17_SizeAlwaysComputed ==
    out.fetch = "ok" => (out.raised = None /\ out.order_size # Null)

\* the policy table as stated, for the last open trade and the collateral of
\* the snapshot just fetched, clamped to max
StatedBet ==
    LET won  == last_open[1].collat < stat'.collat
        last == last_open[1].size
        unit == trade.size.unit
        bet  == IF trade.bet = "Martingale" THEN (IF won THEN unit ELSE 2 * last)
                ELSE IF trade.bet = "d'Alembert"
                     THEN (IF won THEN unit ELSE last + unit)
                ELSE IF trade.bet = "Oscar's grind"
                     THEN (IF won THEN last + unit ELSE unit)
                ELSE unit
    IN  Min(bet, Cap(bet))

\* C18 as stated: when opening with a last open trade and a counter other
\* than 1, the size is the policy's result clamped to max (taken with or
\* without the rounding to 0.001).
C18_PolicyUnlessRetry ==
    [][(/\ MessageStep
        /\ out'.fetch = "ok"
        /\ open'
        /\ last_open # NoTrade
        /\ n_size_over # 1
        /\ out'.order_size # Null)
       => out'.order_size \in {StatedBet, RoundDiv(StatedBet, Milli) * Milli}
      ]_vars

\* C18 amended: when opening with a last open trade, the size is the policy's
\* result clamped to max and rounded to the nearest 0.001 only while the
\* counter is 0; with a counter of 2 or more it is the unit, as it is without
\* a last open trade.
C18_PolicyOnlyAtZero ==
    [][(/\ MessageStep
        /\ out'.fetch = "ok"
        /\ open'
        /\ n_size_over # 1
        /\ out'.order_size # Null)
       => out'.order_size =
             IF last_open # NoTrade /\ n_size_over = 0
             THEN RoundDiv(StatedBet, Milli) * Milli
             ELSE trade.size.unit
      ]_vars

\* after two oversize rejections in a row an opening order of the unit size
\* was submitted where the Martingale table gives twice the last open size
C18_Witness ==
    /\ trade.bet = "Martingale"
    /\ n_size_over = 2
    /\ open
    /\ out.result = "rejected"
    /\ out.status # SizeOverStatus
    /\ last_open # NoTrade
    /\ last_open[1].size = 2 * trade.size.unit
    /\ last_open[1].collat >= stat.collat
    /\ out.orders[1].size = trade.size.unit

\* C19: the contrarian flag changes only in a cycle in which a closing order
\* is accepted while the pivot is enabled; every other step leaves it, and
\* with the pivot disabled it keeps its initial value, False.
C19_ContraryFrame ==
    [][/\ contrary' # contrary
             => (MessageStep /\ pivot /\ out'.result = "accepted" /\ ~open')
       /\ ~pivot => contrary' = FALSE
      ]_vars

\* the pivot set the contrarian flag at an accepted closing order
C19_Witness ==
    /\ pivot
    /\ contrary
    /\ out.result = "accepted"
    /\ ~open
    /\ reserved_size = 0

\* the last cycle recalibrated the reserved position of a recorded order: the
\* sizes matched, or the timeout had elapsed
Recalibrated ==
    /\ out.fetch = "ok"
    /\ out.info = "Calibrate reserved size"
    /\ out.why \in {"match", "timeout"}

\* C20: when time passes, events keep arriving and fetches keep succeeding, a
\* recorded order that the last cycle did not recalibrate leads to a cycle
\* that recalibrates the reserved position, whatever the exchange reports; and
\* a cycle with a snapshot at or after the order time plus the timeout
\* recalibrates.
C20_EventuallyRecalibrates ==
    /\ (order_datetime # Null /\ ~Recalibrated) ~> Recalibrated
    /\ [][(/\ MessageStep
            /\ out'.fetch = "ok"
            /\ order_datetime # Null
            /\ now - order_datetime >= timeout_delta)
           => /\ out'.info = "Calibrate reserved size"
              /\ out'.why \in {"match", "timeout"}
              /\ order_datetime' \in {Null, 0}
          ]_vars

\* an order that timed out with the sizes still apart was recalibrated and a
\* new order was accepted in the same cycle
C20_Witness ==
    /\ out.why = "timeout"
    /\ out.info = "Calibrate reserved size"
    /\ out.result = "accepted"
    /\ order_datetime = 0

====
